---- MODULE Spec2Model ----
(***************************************************************************)
(* A model of @stdlib/blas-base-wasm-sdsdot: the dot product of two        *)
(* single-precision vectors with extended (double-precision) accumulation, *)
(* exposed as a WebAssembly module wrapper (Module: pointers into module   *)
(* memory) and as a routine over caller arrays (Routine: arrays are copied *)
(* to module memory and the parent method is called on the copies).        *)
(*                                                                         *)
(* Floating point is modelled on integer-valued floats with round to       *)
(* nearest, ties to even, at F32Bits and F64Bits significant bits.  The    *)
(* widths are scaled down from 24 and 53 so that the values at which a sum *)
(* rounds fit the model checker's integers; F64Bits > 2 * F32Bits, as      *)
(* 53 > 2 * 24, so a product of two elements is exact and only sums round. *)
(***************************************************************************)
EXTENDS Integers, Sequences, FiniteSets, TLC

VARIABLES kind, mem, call

vars == <<kind, mem, call>>

(***************************************************************************)
(* Bounds of the model.                                                    *)
(***************************************************************************)
\* Length of every caller array and of every vector region of module memory.
MaxLen == 2
\* Strides range over -MaxStride..MaxStride.
MaxStride == 1
\* Significant bits of the element type (stands for the 24 of a float32).
F32Bits == 5
\* Significant bits of the accumulator type (stands for the 53 of a float64).
F64Bits == 12

(***************************************************************************)
(* Program constants.                                                      *)
(***************************************************************************)
\* bytesPerElement( 'float32' )
BytesPerElement == 4
\* Bytes of one page of WebAssembly memory (10 pages are 640KiB).
PageSize == 65536
\* Length of the vectors of the documented examples (var N = 5).
ExampleLen == 5

(***************************************************************************)
(* Floating point.                                                         *)
(***************************************************************************)
Abs(v) == IF v < 0 THEN -v ELSE v

RECURSIVE Pow2(_)
Pow2(n) == IF n <= 0 THEN 1 ELSE 2 * Pow2(n - 1)

\* Number of bits of a non-negative integer.
RECURSIVE BitLen(_)
BitLen(a) == IF a = 0 THEN 0 ELSE 1 + BitLen(a \div 2)

\* A number rounded to p significant bits, to nearest, ties to even.
RoundNumber(v, p) ==
    LET a == Abs(v)
        e == BitLen(a)
    IN  IF e <= p THEN v
        ELSE LET q == Pow2(e - p)
                 m == a \div q
                 r == a - m * q
                 up == (2 * r > q) \/ (2 * r = q /\ m % 2 = 1)
                 n == IF up THEN (m + 1) * q ELSE m * q
             IN  IF v < 0 THEN -n ELSE n

\* The value of an expression rounded to p significant bits; the expression
\* is evaluated once, then rounded.
RoundTo(v, p) == CHOOSE r \in { RoundNumber(n, p) : n \in {v} } : TRUE

\* Not-a-number: what an element read beyond the end of a typed array
\* (undefined) becomes when it is stored as a float.  It stands outside the
\* range of the numbers of the model and has a 32-bit pattern of its own.
NaN == -Pow2(30)

\* A number stored as a 32-bit float (Float32Array element, f32 parameter).
Fround(v) == IF v = NaN THEN NaN ELSE RoundTo(v, F32Bits)

\* Double-precision addition and multiplication.
F64Add(a, b) == IF a = NaN \/ b = NaN THEN NaN ELSE RoundTo(a + b, F64Bits)

F64Mul(a, b) == IF a = NaN \/ b = NaN THEN NaN ELSE RoundTo(a * b, F64Bits)

(***************************************************************************)
(* Input sets.                                                             *)
(***************************************************************************)
\* An element large enough for a sum with its square to round.
Big == Pow2(F64Bits \div 2)

\* new Float32Array( values ): every element is stored as a 32-bit float.
Float32Array(values) == [i \in 1..Len(values) |-> Fround(values[i])]

\* The arrays a caller passes: all ones, or ones with Big at one index.
Arrays == { Float32Array([i \in 1..MaxLen |-> 1]) } \cup
          { Float32Array([i \in 1..MaxLen |-> IF i = j THEN Big ELSE 1]) :
                j \in 1..MaxLen }

\* The vectors a caller writes to module memory (a prefix of an array).
Vectors == { SubSeq(a, 1, n) : a \in Arrays, n \in 1..MaxLen }

Scalars == {-1, 0, 1}

Strides == -MaxStride..MaxStride

Lengths == -1..MaxLen

Offsets == 0..(MaxLen - 1)

(***************************************************************************)
(* Module memory: a number of pages and the bytes of its first MemBytes    *)
(* addresses (room for two vectors of the longest length in use); every    *)
(* other byte of an allocated page is never written and reads as zero.     *)
(***************************************************************************)
MemBytes ==
    2 * (IF MaxLen > ExampleLen THEN MaxLen ELSE ExampleLen) * BytesPerElement

Addrs == 0..(MemBytes - 1)

ZeroBytes == [a \in Addrs |-> 0]

\* The element slots of the window: slot i is the four bytes from address
\* BytesPerElement * i.
Slots == 0..((MemBytes \div BytesPerElement) - 1)

\* new Memory({ 'initial': n }); written records, for every element slot,
\* the element most recently written there (zero when none was).
Memory(initial) ==
    [pages |-> initial, bytes |-> ZeroBytes, written |-> [i \in Slots |-> 0]]

ByteLength(m) == m.pages * PageSize

\* The i-th byte (i in 0..3) of a 32-bit value, little-endian two's complement.
ByteOf(v, i) == (v \div <<1, 256, 65536, 16777216>>[i + 1]) % 256

\* The 32-bit value stored in the four bytes at a byte address.
LoadF32(m, addr) ==
    LET b(i) == IF (addr + i) \in Addrs THEN m.bytes[addr + i] ELSE 0
        low == b(0) + 256 * b(1) + 65536 * b(2)
    IN  IF b(3) >= 128 THEN (b(3) - 256) * 16777216 + low
                       ELSE b(3) * 16777216 + low

\* The slots a write of a typed array at a byte offset covers get its
\* elements as the most recently written ones.
Record(m, ptr, arr) ==
    [i \in Slots |->
        IF /\ BytesPerElement * i >= ptr
           /\ BytesPerElement * i < ptr + BytesPerElement * Len(arr)
        THEN arr[((BytesPerElement * i - ptr) \div BytesPerElement) + 1]
        ELSE m.written[i]]

\* Variant: a write fills a block of MaxLen elements, padding a shorter
\* vector with zero bytes.
Write_padsBlock(m, ptr, arr) ==
    [m EXCEPT
        !.bytes =
            [a \in Addrs |->
                IF a >= ptr /\ a < ptr + BytesPerElement * Len(arr)
                THEN ByteOf(arr[((a - ptr) \div BytesPerElement) + 1],
                            (a - ptr) % BytesPerElement)
                ELSE IF a >= ptr /\ a < ptr + BytesPerElement * MaxLen
                     THEN 0
                     ELSE m.bytes[a]],
        !.written = Record(m, ptr, arr)]

\* WasmModule.prototype.write: copies the elements of a typed array to the
\* bytes starting at a byte offset.
Write(m, ptr, arr) ==
    [m EXCEPT
        !.bytes =
            [a \in Addrs |->
                IF a >= ptr /\ a < ptr + BytesPerElement * Len(arr)
                THEN ByteOf(arr[((a - ptr) \div BytesPerElement) + 1],
                            (a - ptr) % BytesPerElement)
                ELSE m.bytes[a]],
        !.written = Record(m, ptr, arr)]

\* Variant: memory is resized to exactly the pages asked for, so it can shrink.
Realloc_shrinks(m, nbytes) ==
    [m EXCEPT !.pages =
        IF nbytes <= 0 THEN 0 ELSE (nbytes + PageSize - 1) \div PageSize]

\* WasmModule.prototype.realloc: grows memory to hold at least nbytes; memory
\* never shrinks.
Realloc(m, nbytes) ==
    IF nbytes <= ByteLength(m) THEN m
    ELSE [m EXCEPT !.pages = (nbytes + PageSize - 1) \div PageSize]

(***************************************************************************)
(* The compiled kernel (the exports of the WebAssembly binary).            *)
(***************************************************************************)
\* The element of a vector at a logical index: the 32-bit float at byte
\* address ptr + 4 * index.
Element(m, ptr, index) == LoadF32(m, ptr + BytesPerElement * index)

\* The accumulator after the first k products, added left to right.
RECURSIVE Accumulate(_, _, _, _, _, _, _, _)
Accumulate(m, k, xptr, strideX, offsetX, yptr, strideY, offsetY) ==
    IF k <= 0 THEN 0
    ELSE F64Add(
            Accumulate(m, k - 1, xptr, strideX, offsetX, yptr, strideY, offsetY),
            F64Mul(Element(m, xptr, offsetX + (k - 1) * strideX),
                   Element(m, yptr, offsetY + (k - 1) * strideY)))

\* The offset-explicit kernel: scalar for N <= 0, otherwise the accumulated
\* products with scalar added as the final step.
c_sdsdot_ndarray(m, N, scalar, xptr, strideX, offsetX, yptr, strideY, offsetY) ==
    IF N <= 0 THEN scalar
    ELSE F64Add(
            Accumulate(m, N, xptr, strideX, offsetX, yptr, strideY, offsetY),
            scalar)

\* The starting index the stride-implicit kernel derives from a stride.
ImplicitOffset(N, stride) == IF stride >= 0 THEN 0 ELSE (N - 1) * Abs(stride)

\* The stride-implicit kernel: derives the offsets and delegates.
c_sdsdot(m, N, scalar, xptr, strideX, yptr, strideY) ==
    c_sdsdot_ndarray(m, N, scalar, xptr, strideX, ImplicitOffset(N, strideX),
                     yptr, strideY, ImplicitOffset(N, strideY))

(***************************************************************************)
(* Module: the wrapper over module memory.                                 *)
(***************************************************************************)
\* Variant: the two strides are passed in each other's place.
ModuleMain_swappedStrides(m, N, scalar, xptr, strideX, yptr, strideY) ==
    c_sdsdot(m, N, scalar, xptr, strideY, yptr, strideX)

\* Module.prototype.main
ModuleMain(m, N, scalar, xptr, strideX, yptr, strideY) ==
    c_sdsdot(m, N, scalar, xptr, strideX, yptr, strideY)

\* Variant: returns 0.0 for N <= 0 before calling the kernel.
ModuleNdarray_zeroForEmpty(m, N, scalar, xptr, strideX, offsetX, yptr, strideY, offsetY) ==
    IF N <= 0 THEN 0
    ELSE c_sdsdot_ndarray(m, N, scalar, xptr, strideX, offsetX, yptr, strideY, offsetY)

\* Variant: the value of the kernel is narrowed to a 32-bit float.
ModuleNdarray_narrowed(m, N, scalar, xptr, strideX, offsetX, yptr, strideY, offsetY) ==
    Fround(c_sdsdot_ndarray(m, N, scalar, xptr, strideX, offsetX,
                            yptr, strideY, offsetY))

\* Variant: the scalar is not passed on to the kernel.
ModuleNdarray_noScalar(m, N, scalar, xptr, strideX, offsetX, yptr, strideY, offsetY) ==
    c_sdsdot_ndarray(m, N, 0, xptr, strideX, offsetX, yptr, strideY, offsetY)

\* Module.prototype.ndarray
ModuleNdarray(m, N, scalar, xptr, strideX, offsetX, yptr, strideY, offsetY) ==
    c_sdsdot_ndarray(m, N, scalar, xptr, strideX, offsetX, yptr, strideY, offsetY)

(***************************************************************************)
(* Routine: the interface over caller arrays.                              *)
(***************************************************************************)
\* Variant: a negative stride starts one stride past the last element.
stride2offset_pastEnd(N, stride) == IF stride > 0 THEN 0 ELSE -N * stride

\* stride2offset( N, stride )
stride2offset(N, stride) == IF stride > 0 THEN 0 ELSE (1 - N) * stride

\* Variant: a negative N is taken for the number of elements |N|.
strided2object_absLength(N, x, stride, offset) ==
    [length |-> Abs(N), data |-> x, stride |-> stride, offset |-> offset]

\* strided2object( N, x, stride, offset )
strided2object(N, x, stride, offset) ==
    [length |-> N, data |-> x, stride |-> stride, offset |-> offset]

\* The element of a typed array at a zero-based index, as a float: an index
\* outside the array reads undefined, which is stored as NaN.
ReadElement(data, index) ==
    IF index >= 0 /\ index < Len(data) THEN data[index + 1] ELSE NaN

\* Variant: a stride of zero is walked as a stride of one.
Gather_zeroAsUnit(obj) ==
    [k \in 1..obj.length |->
        ReadElement(obj.data,
            obj.offset + (k - 1) * (IF obj.stride = 0 THEN 1 ELSE obj.stride))]

\* The indexed elements of a strided array object, in logical order.
Gather(obj) ==
    [k \in 1..obj.length |->
        ReadElement(obj.data, obj.offset + (k - 1) * obj.stride)]

\* Bytes taken in module memory by the indexed elements of an array object.
NBytes(obj) == obj.length * BytesPerElement

\* Variant: the copy of the second array is written where the copy of the
\* first is.
arrays2ptrs_samePointer(m, a0, a1) ==
    LET m0 == Realloc(m, NBytes(a0) + NBytes(a1))
        p0 == 0
        p1 == p0
        m1 == Write(m0, p0, Gather(a0))
        m2 == Write(m1, p1, Gather(a1))
    IN  [mem  |-> m2,
         ptrs |-> << [ptr |-> p0, stride |-> 1, offset |-> 0, data |-> a0.data],
                     [ptr |-> p1, stride |-> 1, offset |-> 0, data |-> a1.data] >>]

\* Variant: the copies are reported with the strides and offsets of the
\* caller's arrays.
arrays2ptrs_callerWalk(m, a0, a1) ==
    LET m0 == Realloc(m, NBytes(a0) + NBytes(a1))
        p0 == 0
        p1 == p0 + NBytes(a0)
        m1 == Write(m0, p0, Gather(a0))
        m2 == Write(m1, p1, Gather(a1))
    IN  [mem  |-> m2,
         ptrs |-> << [ptr |-> p0, stride |-> a0.stride, offset |-> a0.offset,
                      data |-> a0.data],
                     [ptr |-> p1, stride |-> a1.stride, offset |-> a1.offset,
                      data |-> a1.data] >>]

\* arrays2ptrs( ctx, [ a0, a1 ] ): grows module memory to hold the indexed
\* elements of both arrays, copies them there one array after the other, and
\* returns where each copy is and how to walk it.
arrays2ptrs(m, a0, a1) ==
    LET m0 == Realloc(m, NBytes(a0) + NBytes(a1))
        p0 == 0
        p1 == p0 + NBytes(a0)
        m1 == Write(m0, p0, Gather(a0))
        m2 == Write(m1, p1, Gather(a1))
    IN  [mem  |-> m2,
         ptrs |-> << [ptr |-> p0, stride |-> 1, offset |-> 0, data |-> a0.data],
                     [ptr |-> p1, stride |-> 1, offset |-> 0, data |-> a1.data] >>]

\* Variant: y is walked from the offset of x.
RoutineNdarray_offsetXForY(m, N, scalar, x, strideX, offsetX, y, strideY, offsetY) ==
    LET r  == arrays2ptrs(m, strided2object(N, x, strideX, offsetX),
                             strided2object(N, y, strideY, offsetX))
        p0 == r.ptrs[1]
        p1 == r.ptrs[2]
    IN  [mem |-> r.mem, x |-> p0.data, y |-> p1.data,
         offsetX |-> offsetX, offsetY |-> offsetY,
         res |-> ModuleNdarray(r.mem, N, scalar, p0.ptr, p0.stride, p0.offset,
                               p1.ptr, p1.stride, p1.offset)]

\* Variant: the kernel is given the caller's strides and offsets instead of
\* those of the copies.
RoutineNdarray_callerStrides(m, N, scalar, x, strideX, offsetX, y, strideY, offsetY) ==
    LET r  == arrays2ptrs(m, strided2object(N, x, strideX, offsetX),
                             strided2object(N, y, strideY, offsetY))
        p0 == r.ptrs[1]
        p1 == r.ptrs[2]
    IN  [mem |-> r.mem, x |-> p0.data, y |-> p1.data,
         offsetX |-> offsetX, offsetY |-> offsetY,
         res |-> ModuleNdarray(r.mem, N, scalar, p0.ptr, strideX, offsetX,
                               p1.ptr, strideY, offsetY)]

\* Variant: after the computation the copy of y is read back into the
\* indexed elements of x.
RoutineNdarray_readBack(m, N, scalar, x, strideX, offsetX, y, strideY, offsetY) ==
    LET r  == arrays2ptrs(m, strided2object(N, x, strideX, offsetX),
                             strided2object(N, y, strideY, offsetY))
        p0 == r.ptrs[1]
        p1 == r.ptrs[2]
        hit(i) == \E k \in 0..(N - 1) : offsetX + k * strideX + 1 = i
        src(i) == CHOOSE k \in 0..(N - 1) : offsetX + k * strideX + 1 = i
    IN  [mem |-> r.mem,
         x |-> [i \in 1..Len(x) |->
                  IF hit(i) THEN Element(r.mem, p1.ptr, src(i)) ELSE x[i]],
         y |-> p1.data,
         offsetX |-> offsetX, offsetY |-> offsetY,
         res |-> ModuleNdarray(r.mem, N, scalar, p0.ptr, p0.stride, p0.offset,
                               p1.ptr, p1.stride, p1.offset)]

\* Routine.prototype.ndarray: the memory, the caller's arrays, the offsets
\* the method was called with and the value returned when the method returns.
RoutineNdarray(m, N, scalar, x, strideX, offsetX, y, strideY, offsetY) ==
    LET r  == arrays2ptrs(m, strided2object(N, x, strideX, offsetX),
                             strided2object(N, y, strideY, offsetY))
        p0 == r.ptrs[1]
        p1 == r.ptrs[2]
    IN  [mem |-> r.mem, x |-> p0.data, y |-> p1.data,
         offsetX |-> offsetX, offsetY |-> offsetY,
         res |-> ModuleNdarray(r.mem, N, scalar, p0.ptr, p0.stride, p0.offset,
                               p1.ptr, p1.stride, p1.offset)]

\* Variant: a negative stride is walked forward from the first element.
RoutineMain_forward(m, N, scalar, x, strideX, y, strideY) ==
    RoutineNdarray(m, N, scalar, x, Abs(strideX), 0, y, Abs(strideY), 0)

\* Routine.prototype.main
RoutineMain(m, N, scalar, x, strideX, y, strideY) ==
    RoutineNdarray(m, N, scalar, x, strideX, stride2offset(N, strideX),
                   y, strideY, stride2offset(N, strideY))

(***************************************************************************)
(* Constructors.  `this` is the class of the object a constructor is       *)
(* applied to: "none" when it is called as a plain function.               *)
(***************************************************************************)
\* A value provided as the memory argument: a WebAssembly memory of a number
\* of initial pages, or a value of another type.
MemoryValue(initial) == [type |-> "memory", initial |-> initial]

OtherValues ==
    { [type |-> t, initial |-> 0] :
        t \in {"string", "boolean", "null", "undefined", "array", "object",
               "function"} }

Values == {MemoryValue(0), MemoryValue(1)} \cup OtherValues

isWebAssemblyMemory(value) == value.type = "memory"

\* The state in which no instance has been constructed.
NoInstance == [kind |-> "None", mem |-> Memory(0)]

\* Variant: the parent constructor is called before the argument is checked.
Module_parentFirst(this, memory) ==
    IF ~isWebAssemblyMemory(memory)
    THEN [kind |-> "None", mem |-> Memory(0), threw |-> "TypeError",
          parent |-> TRUE]
    ELSE [kind |-> IF this = "Routine" THEN this ELSE "Module",
          mem |-> Memory(memory.initial), threw |-> "none", parent |-> TRUE]

\* Variant: a call without `new` is not turned into a construction.
Module_requiresNew(this, memory) ==
    IF this \notin {"Module", "Routine"} \/ ~isWebAssemblyMemory(memory)
    THEN [kind |-> "None", mem |-> Memory(0), threw |-> "TypeError",
          parent |-> FALSE]
    ELSE [kind |-> this, mem |-> Memory(memory.initial), threw |-> "none",
          parent |-> TRUE]

\* function Module( memory ): the instance it yields (its class and the
\* memory it is bound to), the error it throws and whether the parent
\* constructor ran.
RECURSIVE Module(_, _)
Module(this, memory) ==
    IF this \notin {"Module", "Routine"} THEN Module("Module", memory)
    ELSE IF ~isWebAssemblyMemory(memory)
         THEN [kind |-> "None", mem |-> Memory(0), threw |-> "TypeError",
               parent |-> FALSE]
         ELSE [kind |-> this, mem |-> Memory(memory.initial),
               threw |-> "none", parent |-> TRUE]

\* function Routine()
RECURSIVE Routine(_)
Routine(this) ==
    IF this # "Routine" THEN Routine("Routine")
    ELSE Module(this, MemoryValue(0))

(***************************************************************************)
(* The state machine: at most one instance, a Module over the memory it    *)
(* was given or a Routine over its own memory of no pages, and the calls   *)
(* made on it.                                                             *)
(***************************************************************************)
\* Pointers at which a caller of a Module keeps its two vectors.
XPtr == 0

YPtr == MaxLen * BytesPerElement

Ptrs == {XPtr, YPtr}

NoArray == << >>

\* The arguments the kernel is called with.
KernelArgs(xptr, strideX, offsetX, yptr, strideY, offsetY) ==
    [xptr |-> xptr, strideX |-> strideX, offsetX |-> offsetX,
     yptr |-> yptr, strideY |-> strideY, offsetY |-> offsetY]

\* The record of a call: its arguments, the memory it found, what it left
\* and returned and, while the kernel runs, the position of its loop.
NoCall ==
    [op |-> "none", N |-> 0, scalar |-> 0, x |-> NoArray, y |-> NoArray,
     xptr |-> 0, yptr |-> 0, strideX |-> 0, strideY |-> 0,
     offsetX |-> 0, offsetY |-> 0, memBefore |-> Memory(0),
     xAfter |-> NoArray, yAfter |-> NoArray, res |-> 0,
     arg |-> MemoryValue(0), this |-> "none", threw |-> "none",
     parent |-> FALSE,
     pc |-> "none", kernel |-> KernelArgs(0, 0, 0, 0, 0, 0),
     k |-> 0, acc |-> 0, visited |-> << >>]

\* The indices a strided walk touches lie inside an array of the given length.
InBounds(N, stride, offset, length) ==
    \A k \in 0..(N - 1) :
        offset + k * stride >= 0 /\ offset + k * stride < length

\* The byte addresses a strided walk touches lie inside module memory.
InMemory(m, N, ptr, stride, offset) ==
    \A k \in 0..(N - 1) :
        /\ ptr + BytesPerElement * (offset + k * stride) >= 0
        /\ ptr + BytesPerElement * (offset + k * stride + 1) <= ByteLength(m)

Init ==
    /\ kind = NoInstance.kind
    /\ mem = NoInstance.mem
    /\ call = NoCall

\* No call is in progress and no returned value is held.
Idle == call.op = "none"

\* Module( memory ) and new Module( memory )
DoNewModule ==
    /\ kind = "None"
    /\ Idle
    /\ \E memory \in Values, this \in {"none", "Module"} :
        LET r == Module(this, memory)
        IN  /\ kind' = r.kind
            /\ mem' = r.mem
            /\ call' = [NoCall EXCEPT !.op = "Module", !.arg = memory,
                            !.this = this, !.threw = r.threw,
                            !.parent = r.parent]

\* Routine() and new Routine()
DoNewRoutine ==
    /\ kind = "None"
    /\ Idle
    /\ \E this \in {"none", "Routine"} :
        LET r == Routine(this)
        IN  /\ kind' = r.kind
            /\ mem' = r.mem
            /\ call' = [NoCall EXCEPT !.op = "Routine", !.this = this,
                            !.threw = r.threw, !.parent = r.parent]

\* mod.write( ptr, vector ), inside the memory
DoWrite ==
    /\ kind = "Module"
    /\ Idle
    /\ \E ptr \in Ptrs, v \in Vectors :
        /\ ptr + BytesPerElement * Len(v) <= ByteLength(mem)
        /\ mem' = Write(mem, ptr, v)
    /\ UNCHANGED <<kind, call>>

\* Variant: the method stores the value it returns over the first element
\* of x.
DoModuleMain_storesResult ==
    /\ kind = "Module"
    /\ Idle
    /\ \E N \in Lengths, scalar \in Scalars, xptr \in Ptrs, yptr \in Ptrs,
          strideX \in Strides, strideY \in Strides :
        /\ xptr # yptr
        /\ InMemory(mem, N, xptr, strideX, ImplicitOffset(N, strideX))
        /\ InMemory(mem, N, yptr, strideY, ImplicitOffset(N, strideY))
        /\ LET res == ModuleMain(mem, N, scalar, xptr, strideX, yptr, strideY)
           IN  /\ call' = [NoCall EXCEPT !.op = "Module.main", !.N = N,
                            !.scalar = scalar, !.xptr = xptr, !.yptr = yptr,
                            !.strideX = strideX, !.strideY = strideY,
                            !.memBefore = mem, !.res = res]
               /\ mem' = IF N > 0 THEN Write(mem, xptr, <<res>>) ELSE mem
    /\ UNCHANGED kind

\* mod.main( N, scalar, xptr, strideX, yptr, strideY )
DoModuleMain ==
    /\ kind = "Module"
    /\ Idle
    /\ \E N \in Lengths, scalar \in Scalars, xptr \in Ptrs, yptr \in Ptrs,
          strideX \in Strides, strideY \in Strides :
        /\ xptr # yptr
        /\ InMemory(mem, N, xptr, strideX, ImplicitOffset(N, strideX))
        /\ InMemory(mem, N, yptr, strideY, ImplicitOffset(N, strideY))
        /\ call' = [NoCall EXCEPT !.op = "Module.main", !.N = N,
                        !.scalar = scalar, !.xptr = xptr, !.yptr = yptr,
                        !.strideX = strideX, !.strideY = strideY,
                        !.memBefore = mem,
                        !.res = ModuleMain(mem, N, scalar, xptr, strideX,
                                           yptr, strideY)]
    /\ UNCHANGED <<kind, mem>>

\* mod.ndarray( N, scalar, xptr, strideX, offsetX, yptr, strideY, offsetY )
DoModuleNdarray ==
    /\ kind = "Module"
    /\ Idle
    /\ \E N \in Lengths, scalar \in Scalars, xptr \in Ptrs, yptr \in Ptrs,
          strideX \in Strides, strideY \in Strides,
          offsetX \in Offsets, offsetY \in Offsets :
        /\ xptr # yptr
        /\ InMemory(mem, N, xptr, strideX, offsetX)
        /\ InMemory(mem, N, yptr, strideY, offsetY)
        /\ call' = [NoCall EXCEPT !.op = "Module.ndarray", !.N = N,
                        !.scalar = scalar, !.xptr = xptr, !.yptr = yptr,
                        !.strideX = strideX, !.strideY = strideY,
                        !.offsetX = offsetX, !.offsetY = offsetY,
                        !.memBefore = mem,
                        !.res = ModuleNdarray(mem, N, scalar, xptr, strideX,
                                              offsetX, yptr, strideY, offsetY)]
    /\ UNCHANGED <<kind, mem>>

\* sdsdot.main( N, scalar, x, strideX, y, strideY )
DoRoutineMain ==
    /\ kind = "Routine"
    /\ Idle
    /\ \E N \in Lengths, scalar \in Scalars, x \in Arrays, y \in Arrays,
          strideX \in Strides, strideY \in Strides :
        /\ InBounds(N, strideX, stride2offset(N, strideX), Len(x))
        /\ InBounds(N, strideY, stride2offset(N, strideY), Len(y))
        /\ LET r == RoutineMain(mem, N, scalar, x, strideX, y, strideY)
           IN  /\ mem' = r.mem
               /\ call' = [NoCall EXCEPT !.op = "Routine.main", !.N = N,
                               !.scalar = scalar, !.x = x, !.y = y,
                               !.strideX = strideX, !.strideY = strideY,
                               !.offsetX = r.offsetX, !.offsetY = r.offsetY,
                               !.memBefore = mem, !.xAfter = r.x,
                               !.yAfter = r.y, !.res = r.res]
    /\ UNCHANGED kind

\* sdsdot.ndarray( N, scalar, x, strideX, offsetX, y, strideY, offsetY )
DoRoutineNdarray ==
    /\ kind = "Routine"
    /\ Idle
    /\ \E N \in Lengths, scalar \in Scalars, x \in Arrays, y \in Arrays,
          strideX \in Strides, strideY \in Strides,
          offsetX \in Offsets, offsetY \in Offsets :
        /\ InBounds(N, strideX, offsetX, Len(x))
        /\ InBounds(N, strideY, offsetY, Len(y))
        /\ LET r == RoutineNdarray(mem, N, scalar, x, strideX, offsetX,
                                   y, strideY, offsetY)
           IN  /\ mem' = r.mem
               /\ call' = [NoCall EXCEPT !.op = "Routine.ndarray", !.N = N,
                               !.scalar = scalar, !.x = x, !.y = y,
                               !.strideX = strideX, !.strideY = strideY,
                               !.offsetX = offsetX, !.offsetY = offsetY,
                               !.memBefore = mem, !.xAfter = r.x,
                               !.yAfter = r.y, !.res = r.res]
    /\ UNCHANGED kind

\* The caller is done with the value a call returned.
Discard ==
    /\ ~Idle
    /\ call.pc # "loop"
    /\ call' = NoCall
    /\ UNCHANGED <<kind, mem>>

Next ==
    \/ DoNewModule
    \/ DoNewRoutine
    \/ DoWrite
    \/ DoModuleMain
    \/ DoModuleNdarray
    \/ DoRoutineMain
    \/ DoRoutineNdarray
    \/ Discard

Spec == Init /\ [][Next]_vars

(***************************************************************************)
(* The same calls with the kernel taken one accumulation step at a time:   *)
(* a call enters the kernel, the kernel adds one product per step and      *)
(* returns once every product has been added.                              *)
(***************************************************************************)
\* mod.main( ... ) up to the entry of the kernel
CallModuleMain ==
    /\ kind = "Module"
    /\ Idle
    /\ \E N \in Lengths, scalar \in Scalars, xptr \in Ptrs, yptr \in Ptrs,
          strideX \in Strides, strideY \in Strides :
        /\ xptr # yptr
        /\ InMemory(mem, N, xptr, strideX, ImplicitOffset(N, strideX))
        /\ InMemory(mem, N, yptr, strideY, ImplicitOffset(N, strideY))
        /\ call' = [NoCall EXCEPT !.op = "Module.main", !.N = N,
                        !.scalar = scalar, !.xptr = xptr, !.yptr = yptr,
                        !.strideX = strideX, !.strideY = strideY,
                        !.memBefore = mem, !.pc = "loop",
                        !.kernel = KernelArgs(
                            xptr, strideX, ImplicitOffset(N, strideX),
                            yptr, strideY, ImplicitOffset(N, strideY))]
    /\ UNCHANGED <<kind, mem>>

\* mod.ndarray( ... ) up to the entry of the kernel
CallModuleNdarray ==
    /\ kind = "Module"
    /\ Idle
    /\ \E N \in Lengths, scalar \in Scalars, xptr \in Ptrs, yptr \in Ptrs,
          strideX \in Strides, strideY \in Strides,
          offsetX \in Offsets, offsetY \in Offsets :
        /\ xptr # yptr
        /\ InMemory(mem, N, xptr, strideX, offsetX)
        /\ InMemory(mem, N, yptr, strideY, offsetY)
        /\ call' = [NoCall EXCEPT !.op = "Module.ndarray", !.N = N,
                        !.scalar = scalar, !.xptr = xptr, !.yptr = yptr,
                        !.strideX = strideX, !.strideY = strideY,
                        !.offsetX = offsetX, !.offsetY = offsetY,
                        !.memBefore = mem, !.pc = "loop",
                        !.kernel = KernelArgs(xptr, strideX, offsetX,
                                              yptr, strideY, offsetY)]
    /\ UNCHANGED <<kind, mem>>

\* The record of a routine's ndarray once the arrays are copied to module
\* memory and the parent method enters the kernel on the copies.
RoutineEntry(op, m, N, scalar, x, strideX, offsetX, y, strideY, offsetY) ==
    LET r  == arrays2ptrs(m, strided2object(N, x, strideX, offsetX),
                             strided2object(N, y, strideY, offsetY))
        p0 == r.ptrs[1]
        p1 == r.ptrs[2]
    IN  [mem |-> r.mem,
         call |-> [NoCall EXCEPT !.op = op, !.N = N, !.scalar = scalar,
                       !.x = x, !.y = y,
                       !.strideX = strideX, !.strideY = strideY,
                       !.offsetX = offsetX, !.offsetY = offsetY,
                       !.memBefore = m, !.xAfter = p0.data,
                       !.yAfter = p1.data, !.pc = "loop",
                       !.kernel = KernelArgs(p0.ptr, p0.stride, p0.offset,
                                             p1.ptr, p1.stride, p1.offset)]]

\* sdsdot.main( ... ) up to the entry of the kernel
CallRoutineMain ==
    /\ kind = "Routine"
    /\ Idle
    /\ \E N \in Lengths, scalar \in Scalars, x \in Arrays, y \in Arrays,
          strideX \in Strides, strideY \in Strides :
        /\ InBounds(N, strideX, stride2offset(N, strideX), Len(x))
        /\ InBounds(N, strideY, stride2offset(N, strideY), Len(y))
        /\ LET e == RoutineEntry("Routine.main", mem, N, scalar,
                                 x, strideX, stride2offset(N, strideX),
                                 y, strideY, stride2offset(N, strideY))
           IN  mem' = e.mem /\ call' = e.call
    /\ UNCHANGED kind

\* sdsdot.ndarray( ... ) up to the entry of the kernel
CallRoutineNdarray ==
    /\ kind = "Routine"
    /\ Idle
    /\ \E N \in Lengths, scalar \in Scalars, x \in Arrays, y \in Arrays,
          strideX \in Strides, strideY \in Strides,
          offsetX \in Offsets, offsetY \in Offsets :
        /\ InBounds(N, strideX, offsetX, Len(x))
        /\ InBounds(N, strideY, offsetY, Len(y))
        /\ LET e == RoutineEntry("Routine.ndarray", mem, N, scalar,
                                 x, strideX, offsetX, y, strideY, offsetY)
           IN  mem' = e.mem /\ call' = e.call
    /\ UNCHANGED kind

\* Variant: the loop tests its bound after the step (one step too many).
KernelStep_extraStep ==
    /\ call.pc = "loop"
    /\ call.k <= call.N
    /\ call' = [call EXCEPT
            !.acc = F64Add(call.acc,
                F64Mul(Element(mem, call.kernel.xptr,
                           call.kernel.offsetX + call.k * call.kernel.strideX),
                       Element(mem, call.kernel.yptr,
                           call.kernel.offsetY + call.k * call.kernel.strideY))),
            !.k = call.k + 1,
            !.visited = Append(call.visited, call.k)]
    /\ UNCHANGED <<kind, mem>>

\* Variant: the products are added from the last logical index to the first.
KernelStep_backward ==
    /\ call.pc = "loop"
    /\ call.k < call.N
    /\ LET j == call.N - 1 - call.k
       IN  call' = [call EXCEPT
            !.acc = F64Add(call.acc,
                F64Mul(Element(mem, call.kernel.xptr,
                           call.kernel.offsetX + j * call.kernel.strideX),
                       Element(mem, call.kernel.yptr,
                           call.kernel.offsetY + j * call.kernel.strideY))),
            !.k = call.k + 1,
            !.visited = Append(call.visited, j)]
    /\ UNCHANGED <<kind, mem>>

\* Variant: the accumulator starts from scalar instead of zero.
KernelStep_scalarFirst ==
    /\ call.pc = "loop"
    /\ call.k < call.N
    /\ call' = [call EXCEPT
            !.acc = F64Add(IF call.k = 0 THEN call.scalar ELSE call.acc,
                F64Mul(Element(mem, call.kernel.xptr,
                           call.kernel.offsetX + call.k * call.kernel.strideX),
                       Element(mem, call.kernel.yptr,
                           call.kernel.offsetY + call.k * call.kernel.strideY))),
            !.k = call.k + 1,
            !.visited = Append(call.visited, call.k)]
    /\ UNCHANGED <<kind, mem>>

\* One iteration of the kernel's loop: the product at logical index k is
\* added to the accumulator and k advances.
KernelStep ==
    /\ call.pc = "loop"
    /\ call.k < call.N
    /\ call' = [call EXCEPT
            !.acc = F64Add(call.acc,
                F64Mul(Element(mem, call.kernel.xptr,
                           call.kernel.offsetX + call.k * call.kernel.strideX),
                       Element(mem, call.kernel.yptr,
                           call.kernel.offsetY + call.k * call.kernel.strideY))),
            !.k = call.k + 1,
            !.visited = Append(call.visited, call.k)]
    /\ UNCHANGED <<kind, mem>>

\* The kernel returns: scalar for N <= 0, otherwise the accumulator with
\* scalar added as the final step.
KernelReturn ==
    /\ call.pc = "loop"
    /\ call.k >= call.N
    /\ call' = [call EXCEPT
            !.pc = "done",
            !.res = IF call.N <= 0 THEN call.scalar
                    ELSE F64Add(call.acc, call.scalar)]
    /\ UNCHANGED <<kind, mem>>

NextLoop ==
    \/ DoNewModule
    \/ DoNewRoutine
    \/ DoWrite
    \/ CallModuleMain
    \/ CallModuleNdarray
    \/ CallRoutineMain
    \/ CallRoutineNdarray
    \/ KernelStep
    \/ KernelReturn
    \/ Discard

\* The kernel is straight-line code inside a synchronous call: once entered
\* it keeps taking steps.
SpecLoop ==
    /\ Init
    /\ [][NextLoop]_vars
    /\ WF_vars(KernelStep)
    /\ WF_vars(KernelReturn)

(***************************************************************************)
(* Invocations that overlap in time.  A call runs to completion inside its *)
(* agent (thread), so two invocations overlap only when they are made by   *)
(* two agents, each on the routine instance it constructed; the steps of   *)
(* the two calls then interleave in any order.  An array stands for the    *)
(* buffer that holds it: two invocations given the same array read a       *)
(* common buffer, and nothing writes the arrays.                           *)
(***************************************************************************)
Agents == {"A", "B"}

Other(p) == CHOOSE q \in Agents : q # p

PairLengths == {MaxLen}

PairScalars == {0, 1}

PairStrides == {-1, 1}

\* Variant: one memory serves the routines of every agent.
InstanceMemory_oneForAll(p) == "A"

\* The memory the routine of an agent works on: the constructor gives every
\* instance a memory of its own.
InstanceMemory(p) == p

\* The record of a call after one iteration of the kernel's loop on memory m.
Advance(c, m) ==
    [c EXCEPT
        !.acc = F64Add(c.acc,
            F64Mul(Element(m, c.kernel.xptr,
                       c.kernel.offsetX + c.k * c.kernel.strideX),
                   Element(m, c.kernel.yptr,
                       c.kernel.offsetY + c.k * c.kernel.strideY))),
        !.k = c.k + 1,
        !.visited = Append(c.visited, c.k)]

\* The record of a call once the kernel has returned.
Returned(c) ==
    [c EXCEPT !.pc = "done",
              !.res = IF c.N <= 0 THEN c.scalar ELSE F64Add(c.acc, c.scalar)]

InitPair ==
    /\ kind = [p \in Agents |-> Routine("Routine").kind]
    /\ mem = [p \in Agents |-> Routine("Routine").mem]
    /\ call = [p \in Agents |-> [c |-> NoCall, overlapped |-> FALSE]]

\* An agent calls sdsdot.ndarray( ... ): the arrays are copied to the memory
\* of its routine and the kernel is entered.
PairCall(p) ==
    /\ call[p].c.op = "none"
    /\ \E N \in PairLengths, scalar \in PairScalars, x \in Arrays, y \in Arrays,
          strideX \in PairStrides, strideY \in PairStrides,
          offsetX \in Offsets, offsetY \in Offsets :
        /\ InBounds(N, strideX, offsetX, Len(x))
        /\ InBounds(N, strideY, offsetY, Len(y))
        /\ LET e == RoutineEntry("Routine.ndarray", mem[InstanceMemory(p)],
                                 N, scalar, x, strideX, offsetX,
                                 y, strideY, offsetY)
               busy == call[Other(p)].c.pc = "loop"
           IN  /\ mem' = [mem EXCEPT ![InstanceMemory(p)] = e.mem]
               /\ call' = [q \in Agents |->
                    IF q = p THEN [c |-> e.call, overlapped |-> busy]
                    ELSE [call[q] EXCEPT !.overlapped = @ \/ busy]]
    /\ UNCHANGED kind

\* The kernel of an agent's call takes one step.
PairStep(p) ==
    /\ call[p].c.pc = "loop"
    /\ call[p].c.k < call[p].c.N
    /\ call' = [call EXCEPT ![p].c = Advance(@, mem[InstanceMemory(p)])]
    /\ UNCHANGED <<kind, mem>>

\* The kernel of an agent's call returns.
PairReturn(p) ==
    /\ call[p].c.pc = "loop"
    /\ call[p].c.k >= call[p].c.N
    /\ call' = [call EXCEPT ![p].c = Returned(@)]
    /\ UNCHANGED <<kind, mem>>

NextPair ==
    \/ \E p \in Agents : PairCall(p)
    \/ \E p \in Agents : PairStep(p)
    \/ \E p \in Agents : PairReturn(p)

SpecPair == InitPair /\ [][NextPair]_vars

(***************************************************************************)
(* Calls of the routine with arrays of any length, the empty one included. *)
(***************************************************************************)
\* The arrays of every length up to MaxLen.
AnyArrays == { SubSeq(a, 1, n) : a \in Arrays, n \in 0..MaxLen }

AnyLengths == -1..1

\* sdsdot.main( N, scalar, x, strideX, y, strideY ), N <= 0 with any arrays
\* and strides, N > 0 with the indexed elements inside the arrays
AnyRoutineMain ==
    /\ kind = "Routine"
    /\ Idle
    /\ \E N \in AnyLengths, scalar \in Scalars, x \in AnyArrays,
          y \in AnyArrays, strideX \in Strides, strideY \in Strides :
        /\ InBounds(N, strideX, stride2offset(N, strideX), Len(x))
        /\ InBounds(N, strideY, stride2offset(N, strideY), Len(y))
        /\ LET r == RoutineMain(mem, N, scalar, x, strideX, y, strideY)
           IN  /\ mem' = r.mem
               /\ call' = [NoCall EXCEPT !.op = "Routine.main", !.N = N,
                               !.scalar = scalar, !.x = x, !.y = y,
                               !.strideX = strideX, !.strideY = strideY,
                               !.offsetX = r.offsetX, !.offsetY = r.offsetY,
                               !.memBefore = mem, !.xAfter = r.x,
                               !.yAfter = r.y, !.res = r.res]
    /\ UNCHANGED kind

\* sdsdot.ndarray( N, scalar, x, strideX, offsetX, y, strideY, offsetY ),
\* N <= 0 with any arrays, strides and offsets
AnyRoutineNdarray ==
    /\ kind = "Routine"
    /\ Idle
    /\ \E N \in AnyLengths, scalar \in Scalars, x \in AnyArrays,
          y \in AnyArrays, strideX \in Strides, strideY \in Strides,
          offsetX \in Offsets, offsetY \in Offsets :
        /\ InBounds(N, strideX, offsetX, Len(x))
        /\ InBounds(N, strideY, offsetY, Len(y))
        /\ LET r == RoutineNdarray(mem, N, scalar, x, strideX, offsetX,
                                   y, strideY, offsetY)
           IN  /\ mem' = r.mem
               /\ call' = [NoCall EXCEPT !.op = "Routine.ndarray", !.N = N,
                               !.scalar = scalar, !.x = x, !.y = y,
                               !.strideX = strideX, !.strideY = strideY,
                               !.offsetX = offsetX, !.offsetY = offsetY,
                               !.memBefore = mem, !.xAfter = r.x,
                               !.yAfter = r.y, !.res = r.res]
    /\ UNCHANGED kind

NextAny ==
    \/ DoNewRoutine
    \/ AnyRoutineMain
    \/ AnyRoutineNdarray
    \/ Discard

SpecAny == Init /\ [][NextAny]_vars

(***************************************************************************)
(* The documented examples and the test fixtures, made in any order on one *)
(* instance.                                                               *)
(***************************************************************************)
\* oneTo( n, 'float32' )
oneTo(n) == Float32Array([i \in 1..n |-> i])

\* ones( n, 'float32' )
ones(n) == Float32Array([i \in 1..n |-> 1])

\* new Float32Array( [ 6.0, 7.0, ... ] ) of n elements
sixTo(n) == Float32Array([i \in 1..n |-> i + 5])

\* var xptr = 0; var yptr = N * bytesPerElement( dtype );
ExamplePtrs == {0, ExampleLen * BytesPerElement}

ExampleVectors == {oneTo(ExampleLen), ones(ExampleLen), sixTo(ExampleLen)}

\* The lengths and scalars of the calls of the examples and fixtures.
ExampleLengths == {-1, 0, 3, ExampleLen}

ExampleScalars == {0, ExampleLen}

\* The arrays of the ndarray fixtures: of five and of six elements.
ExampleXArrays == {oneTo(ExampleLen), oneTo(ExampleLen + 1)}

ExampleYArrays == {ones(ExampleLen), sixTo(ExampleLen), sixTo(ExampleLen + 1)}

\* The strides and offsets ( strideX, offsetX, strideY, offsetY ) of the
\* ndarray fixtures.
ExampleWalks ==
    { <<1, 0, 1, 0>>, <<2, 0, 1, 0>>, <<2, 1, 1, 0>>, <<1, 0, 2, 0>>,
      <<2, 0, 1, 3>>, <<-2, ExampleLen - 1, -1, 2>>,
      <<2, 0, -1, ExampleLen - 2>> }

\* mod.write( xptr, oneTo( N, dtype ) ); mod.write( yptr, ones( N, dtype ) );
ExampleWrite ==
    /\ kind = "Module"
    /\ Idle
    /\ \E ptr \in ExamplePtrs, v \in ExampleVectors :
        /\ ptr + BytesPerElement * Len(v) <= ByteLength(mem)
        /\ mem' = Write(mem, ptr, v)
    /\ UNCHANGED <<kind, call>>

\* mod.main( N, 5.0, xptr, 1, yptr, 1 )
ExampleModuleMain ==
    /\ kind = "Module"
    /\ Idle
    /\ \E N \in ExampleLengths, scalar \in ExampleScalars,
          xptr \in ExamplePtrs, yptr \in ExamplePtrs :
        /\ xptr < yptr
        /\ InMemory(mem, N, xptr, 1, 0)
        /\ InMemory(mem, N, yptr, 1, 0)
        /\ call' = [NoCall EXCEPT !.op = "Module.main", !.N = N,
                        !.scalar = scalar, !.xptr = xptr, !.yptr = yptr,
                        !.strideX = 1, !.strideY = 1,
                        !.memBefore = mem,
                        !.res = ModuleMain(mem, N, scalar, xptr, 1, yptr, 1)]
    /\ UNCHANGED <<kind, mem>>

\* mod.ndarray( N, 5.0, xptr, 1, 0, yptr, 1, 0 )
ExampleModuleNdarray ==
    /\ kind = "Module"
    /\ Idle
    /\ \E N \in ExampleLengths, scalar \in ExampleScalars,
          xptr \in ExamplePtrs, yptr \in ExamplePtrs :
        /\ xptr < yptr
        /\ InMemory(mem, N, xptr, 1, 0)
        /\ InMemory(mem, N, yptr, 1, 0)
        /\ call' = [NoCall EXCEPT !.op = "Module.ndarray", !.N = N,
                        !.scalar = scalar, !.xptr = xptr, !.yptr = yptr,
                        !.strideX = 1, !.strideY = 1,
                        !.memBefore = mem,
                        !.res = ModuleNdarray(mem, N, scalar, xptr, 1, 0,
                                              yptr, 1, 0)]
    /\ UNCHANGED <<kind, mem>>

\* sdsdot.ndarray( 3, 0.0, x, 2, 0, y, 1, 3 ) and the other fixtures; the
\* arrays are not checked against the walk.
ExampleRoutineNdarray ==
    /\ kind = "Routine"
    /\ Idle
    /\ \E N \in ExampleLengths, scalar \in ExampleScalars,
          x \in ExampleXArrays, y \in ExampleYArrays, w \in ExampleWalks :
        LET r == RoutineNdarray(mem, N, scalar, x, w[1], w[2], y, w[3], w[4])
        IN  /\ mem' = r.mem
            /\ call' = [NoCall EXCEPT !.op = "Routine.ndarray", !.N = N,
                            !.scalar = scalar, !.x = x, !.y = y,
                            !.strideX = w[1], !.strideY = w[3],
                            !.offsetX = r.offsetX, !.offsetY = r.offsetY,
                            !.memBefore = mem, !.xAfter = r.x,
                            !.yAfter = r.y, !.res = r.res]
    /\ UNCHANGED kind

NextExamples ==
    \/ DoNewModule
    \/ DoNewRoutine
    \/ ExampleWrite
    \/ ExampleModuleMain
    \/ ExampleModuleNdarray
    \/ ExampleRoutineNdarray
    \/ Discard

SpecExamples == Init /\ [][NextExamples]_vars

(***************************************************************************)
(* Reference definitions used by the properties.                           *)
(***************************************************************************)
RoutineCalls == {"Routine.main", "Routine.ndarray"}

ModuleCalls == {"Module.main", "Module.ndarray"}

\* The products of two equally long sequences, added left to right in
\* double precision.
RECURSIVE SumOfProducts(_, _, _)
SumOfProducts(xs, ys, k) ==
    IF k = 0 THEN 0
    ELSE F64Add(SumOfProducts(xs, ys, k - 1), F64Mul(xs[k], ys[k]))

\* scalar plus the dot product of two sequences.
Expected(scalar, xs, ys) == F64Add(SumOfProducts(xs, ys, Len(xs)), scalar)

\* The elements of an array at offset + k * stride, k = 0..N-1.
Strided(N, a, stride, offset) ==
    [k \in 1..N |-> a[offset + (k - 1) * stride + 1]]

\* The index main uses for the k-th product, relative to the first element.
MainIndex(N, stride, k) ==
    IF stride >= 0 THEN k * stride ELSE (N - 1 - k) * Abs(stride)

\* The offset of the claim on main: 0, or (N-1)*|stride| for a negative stride.
DerivedOffset(N, stride) == IF stride >= 0 THEN 0 ELSE (N - 1) * Abs(stride)

\* An array in reversed physical order.
Reversed(a) == [i \in 1..Len(a) |-> a[Len(a) + 1 - i]]

\* The value the call of a record returns when made on memory m with bias s.
Redo(c, m, s) ==
    CASE c.op = "Routine.main" ->
            RoutineMain(m, c.N, s, c.x, c.strideX, c.y, c.strideY).res
      [] c.op = "Routine.ndarray" ->
            RoutineNdarray(m, c.N, s, c.x, c.strideX, c.offsetX,
                           c.y, c.strideY, c.offsetY).res
      [] c.op = "Module.main" ->
            ModuleMain(m, c.N, s, c.xptr, c.strideX, c.yptr, c.strideY)
      [] c.op = "Module.ndarray" ->
            ModuleNdarray(m, c.N, s, c.xptr, c.strideX, c.offsetX,
                          c.yptr, c.strideY, c.offsetY)

\* The elements of x and of y that enter the products of a call, in the
\* order of the logical index, as the caller sees them: elements of the
\* arrays for a routine, 32-bit floats of module memory for a module.
XSeq(c) ==
    CASE c.op = "Routine.main" ->
            [i \in 1..c.N |-> c.x[MainIndex(c.N, c.strideX, i - 1) + 1]]
      [] c.op = "Routine.ndarray" ->
            Strided(c.N, c.x, c.strideX, c.offsetX)
      [] c.op = "Module.main" ->
            [i \in 1..c.N |->
                LoadF32(c.memBefore,
                        c.xptr + 4 * MainIndex(c.N, c.strideX, i - 1))]
      [] c.op = "Module.ndarray" ->
            [i \in 1..c.N |->
                LoadF32(c.memBefore,
                        c.xptr + 4 * (c.offsetX + (i - 1) * c.strideX))]

YSeq(c) ==
    CASE c.op = "Routine.main" ->
            [i \in 1..c.N |-> c.y[MainIndex(c.N, c.strideY, i - 1) + 1]]
      [] c.op = "Routine.ndarray" ->
            Strided(c.N, c.y, c.strideY, c.offsetY)
      [] c.op = "Module.main" ->
            [i \in 1..c.N |->
                LoadF32(c.memBefore,
                        c.yptr + 4 * MainIndex(c.N, c.strideY, i - 1))]
      [] c.op = "Module.ndarray" ->
            [i \in 1..c.N |->
                LoadF32(c.memBefore,
                        c.yptr + 4 * (c.offsetY + (i - 1) * c.strideY))]

\* A value is representable as a 32-bit float.
IsFloat32(v) == Fround(v) = v

(***************************************************************************)
(* Properties.                                                             *)
(***************************************************************************)
\* C1: for N > 0 and in-bounds strides and offsets, the routine's ndarray
\* returns scalar plus the sum over k of x[offsetX + k*strideX] *
\* y[offsetY + k*strideY], the products added in double precision.
C1_NdarrayDotProduct ==
    (call.op = "Routine.ndarray" /\ call.N > 0) =>
        call.res = Expected(call.scalar,
                            Strided(call.N, call.x, call.strideX, call.offsetX),
                            Strided(call.N, call.y, call.strideY, call.offsetY))

C1_Witness ==
    /\ call.op = "Routine.ndarray"
    /\ call.N = MaxLen
    /\ call.strideX = -1 /\ call.offsetX = MaxLen - 1
    /\ call.strideY = 1 /\ call.offsetY = 0
    /\ call.x[1] = Big /\ call.y[MaxLen] = Big
    /\ call.scalar = 1
    /\ call.res = F64Add(F64Add(MaxLen - 1, Big * Big), 1)

C4_MainEqualsNdarray ==
    (call.op = "Routine.main" /\ call.N > 0) =>
        call.res = RoutineNdarray(call.memBefore, call.N, call.scalar,
                        call.x, call.strideX, DerivedOffset(call.N, call.strideX),
                        call.y, call.strideY, DerivedOffset(call.N, call.strideY)).res

C4_Witness ==
    /\ call.op = "Routine.main"
    /\ call.N = MaxLen
    /\ call.strideX = -1 /\ call.strideY = 1
    /\ call.x[1] = Big /\ call.y[1] = Big
    /\ call.res = F64Add(F64Add(Big, MaxLen - 2), Big)

\* C5: in main the k-th product uses x[k*strideX] for strideX >= 0 and
\* x[(N-1-k)*|strideX|] for strideX < 0, and likewise for y: indices are
\* relative to the first element and a negative stride walks backward.
C5_MainIndexing ==
    (call.op = "Routine.main" /\ call.N > 0) =>
        call.res = Expected(call.scalar,
            [k \in 1..call.N |-> call.x[MainIndex(call.N, call.strideX, k - 1) + 1]],
            [k \in 1..call.N |-> call.y[MainIndex(call.N, call.strideY, k - 1) + 1]])

C5_Witness ==
    /\ call.op = "Routine.main"
    /\ call.N = MaxLen
    /\ call.strideX = -1 /\ call.strideY = -1
    /\ call.x[1] = Big /\ call.y[1] = Big
    /\ call.scalar = 0
    /\ call.res = F64Add(MaxLen - 1, Big * Big)

C7_ReversalSymmetry ==
    (call.op = "Routine.ndarray" /\ call.N > 0) =>
        LET mx == Len(call.x) - 1 - call.offsetX
            my == Len(call.y) - 1 - call.offsetY
        IN  /\ Strided(call.N, Reversed(call.x), -call.strideX, mx)
                 = Strided(call.N, call.x, call.strideX, call.offsetX)
            /\ Strided(call.N, Reversed(call.y), -call.strideY, my)
                 = Strided(call.N, call.y, call.strideY, call.offsetY)
            /\ call.res = RoutineNdarray(call.memBefore, call.N, call.scalar,
                              Reversed(call.x), -call.strideX, mx,
                              call.y, call.strideY, call.offsetY).res
            /\ call.res = RoutineNdarray(call.memBefore, call.N, call.scalar,
                              call.x, call.strideX, call.offsetX,
                              Reversed(call.y), -call.strideY, my).res

C7_Witness ==
    /\ call.op = "Routine.ndarray"
    /\ call.N = MaxLen
    /\ call.strideX = 1 /\ call.offsetX = 0
    /\ call.strideY = -1 /\ call.offsetY = MaxLen - 1
    /\ call.x[1] = Big /\ call.y[1] = Big
    /\ Reversed(call.x) # call.x

\* C8: a call of main or ndarray of the routine returns the value that the
\* same call returns on a routine on which no call was made before: the
\* result does not depend on the calls made earlier on the instance.
C8_IndependentOfHistory ==
    (call.op \in RoutineCalls) =>
        call.res = Redo(call, Memory(0), call.scalar)

C8_Witness ==
    /\ call.op = "Routine.ndarray"
    /\ call.N = 1
    /\ call.memBefore.pages > 0
    /\ Element(call.memBefore, 0, 2 * MaxLen - 1) = Big
    /\ Element(mem, 0, 2 * MaxLen - 1) = Big

\* C9: after main or ndarray of the routine returns, every element of the
\* caller's arrays x and y has the value it had before the call.
C9_ArraysUnchanged ==
    (call.op \in RoutineCalls) =>
        /\ call.xAfter = call.x
        /\ call.yAfter = call.y

C9_Witness ==
    /\ call.op = "Routine.ndarray"
    /\ call.N = MaxLen
    /\ call.x # call.y
    /\ call.xAfter = call.x
    /\ mem # call.memBefore

C11_NonMemoryThrows ==
    (call.op = "Module" /\ ~isWebAssemblyMemory(call.arg)) =>
        /\ call.threw = "TypeError"
        /\ ~call.parent
        /\ kind = "None"

C11_Witness ==
    /\ call.op = "Module"
    /\ call.this = "Module"
    /\ call.arg.type = "object"
    /\ call.threw = "TypeError"
    /\ kind = "None"

\* C12: Module( mem ) called without `new` returns a new Module instance
\* bound to mem, the same as new Module( mem ) does, and Routine() called
\* without `new` returns a new Routine instance, as new Routine() does.
C12_CallableWithoutNew ==
    /\ (call.op = "Module" /\ call.this = "none") =>
          /\ [kind |-> kind, mem |-> mem, threw |-> call.threw,
               parent |-> call.parent] = Module("Module", call.arg)
          /\ isWebAssemblyMemory(call.arg) =>
                /\ kind = "Module"
                /\ mem = Memory(call.arg.initial)
                /\ call.threw = "none"
    /\ (call.op = "Routine" /\ call.this = "none") =>
          /\ [kind |-> kind, mem |-> mem, threw |-> call.threw,
               parent |-> call.parent] = Routine("Routine")
          /\ kind = "Routine"
          /\ call.threw = "none"

C12_Witness ==
    /\ call.op = "Module"
    /\ call.this = "none"
    /\ call.arg = MemoryValue(1)
    /\ kind = "Module"
    /\ mem = Memory(1)
    /\ call.parent

\* C15: every product x[i]*y[i] of two 32-bit elements is formed in 64-bit
\* floating point (it is exact) and the products are summed in 64-bit; the
\* value returned is the 64-bit sum, not narrowed to 32 bits.
C15_DoubleAccumulation ==
    (call.op \in ModuleCalls /\ call.N > 0) =>
        LET xs == XSeq(call)
            ys == YSeq(call)
        IN  /\ \A i \in 1..call.N :
                  /\ IsFloat32(xs[i]) /\ IsFloat32(ys[i])
                  /\ F64Mul(xs[i], ys[i]) = xs[i] * ys[i]
            /\ call.res = Expected(call.scalar, xs, ys)

C15_Witness ==
    /\ call.op = "Module.ndarray"
    /\ call.N = MaxLen
    /\ call.scalar = 0
    /\ call.res = Big + MaxLen - 1
    /\ ~IsFloat32(call.res)

\* C17: for N > 0 and the same memory contents, main of a module instance
\* returns what ndarray of the module instance returns with the offsets
\* derived from the stride signs (0, or (N-1)*|stride| for a negative one).
C17_ModuleMainEqualsNdarray ==
    (call.op = "Module.main" /\ call.N > 0) =>
        call.res = ModuleNdarray(call.memBefore, call.N, call.scalar,
                       call.xptr, call.strideX,
                       DerivedOffset(call.N, call.strideX),
                       call.yptr, call.strideY,
                       DerivedOffset(call.N, call.strideY))

C17_Witness ==
    /\ call.op = "Module.main"
    /\ call.N = MaxLen
    /\ call.strideX = -1 /\ call.strideY = 0
    /\ LoadF32(call.memBefore, call.xptr) = Big
    /\ LoadF32(call.memBefore, call.yptr) = Big
    /\ LoadF32(call.memBefore, call.xptr + 4 * (MaxLen - 1)) = 1
    /\ call.res = F64Add(F64Add(Big * (MaxLen - 1), Big * Big), call.scalar)

\* C18 as stated: for every N and every pair of strides, each starting
\* offset that main derives from a stride and passes to ndarray is a
\* non-negative index.
C18_MainOffsetsNonNegative ==
    (call.op = "Routine.main") =>
        /\ call.offsetX >= 0
        /\ call.offsetY >= 0

\* C19: a stride of zero is accepted: with strideX = 0 every one of the N
\* products uses the single element x[offsetX] (x[0] for main), so the
\* result is scalar plus the sum of x[offsetX] times each of the N strided
\* elements of y; likewise with the roles of x and y exchanged.
C19_ZeroStride ==
    (call.op \in RoutineCalls /\ call.N > 0) =>
        LET x0 == call.x[(IF call.op = "Routine.main" THEN 0
                                                     ELSE call.offsetX) + 1]
            y0 == call.y[(IF call.op = "Routine.main" THEN 0
                                                     ELSE call.offsetY) + 1]
        IN  /\ call.strideX = 0 =>
                  call.res = Expected(call.scalar,
                                      [i \in 1..call.N |-> x0], YSeq(call))
            /\ call.strideY = 0 =>
                  call.res = Expected(call.scalar,
                                      XSeq(call), [i \in 1..call.N |-> y0])

C19_Witness ==
    /\ call.op = "Routine.ndarray"
    /\ call.N = MaxLen
    /\ call.strideX = 0 /\ call.offsetX = MaxLen - 1
    /\ call.strideY = -1
    /\ call.x[MaxLen] = Big /\ call.x[1] = 1
    /\ call.y[1] = Big
    /\ call.res = F64Add(F64Add(Big * (MaxLen - 1), Big * Big), call.scalar)

\* C13 as stated: ndarray with x = [1,2,3,4,5], y = [6,7,8,9,10], N = 3,
\* strideX = 2, offsetX = 0, strideY = 1, offsetY = 3 and scalar = 0.0
\* returns 94.0.
C13_FiveElements ==
    (/\ call.op = "Routine.ndarray"
     /\ call.x = <<1, 2, 3, 4, 5>> /\ call.y = <<6, 7, 8, 9, 10>>
     /\ call.N = 3 /\ call.scalar = 0
     /\ call.strideX = 2 /\ call.offsetX = 0
     /\ call.strideY = 1 /\ call.offsetY = 3) =>
        call.res = 94

\* C13, amended: ndarray with x = [1,2,3,4,5,6], y = [6,7,8,9,10,11], N = 3,
\* strideX = 2, offsetX = 0, strideY = 1, offsetY = 3 and scalar = 0.0
\* returns 94.0.
C13_SixElements ==
    (/\ call.op = "Routine.ndarray"
     /\ call.x = <<1, 2, 3, 4, 5, 6>> /\ call.y = <<6, 7, 8, 9, 10, 11>>
     /\ call.N = 3 /\ call.scalar = 0
     /\ call.strideX = 2 /\ call.offsetX = 0
     /\ call.strideY = 1 /\ call.offsetY = 3) =>
        call.res = 94

C13_Witness ==
    /\ call.op = "Routine.ndarray"
    /\ call.x = <<1, 2, 3, 4, 5, 6>> /\ call.y = <<6, 7, 8, 9, 10, 11>>
    /\ call.N = 3 /\ call.scalar = 0
    /\ call.strideX = 2 /\ call.offsetX = 0
    /\ call.strideY = 1 /\ call.offsetY = 3
    /\ call.memBefore # Memory(0)
    /\ call.res = 94

\* The memory of a module holds x = [1,2,3,4,5] at xptr and
\* y = [1,1,1,1,1] at yptr.
HoldsOneToAndOnes(m, xptr, yptr) ==
    \A i \in 0..4 :
        /\ LoadF32(m, xptr + 4 * i) = i + 1
        /\ LoadF32(m, yptr + 4 * i) = 1

C16_Terminates ==
    /\ [](call.pc = "loop" =>
            /\ call.k <= (IF call.N > 0 THEN call.N ELSE 0)
            /\ Len(call.visited) = call.k)
    /\ [](call.pc = "done" =>
            /\ call.threw = "none"
            /\ call.k = (IF call.N > 0 THEN call.N ELSE 0)
            /\ call.res = Redo(call, call.memBefore, call.scalar))
    /\ ((call.pc = "loop") ~> (call.pc = "done"))

C16_Witness ==
    /\ call.op = "Routine.ndarray"
    /\ call.pc = "done"
    /\ call.N = MaxLen
    /\ call.k = MaxLen
    /\ call.strideX = -1
    /\ call.x[1] = Big /\ call.y[1] = Big
    /\ call.res = F64Add(F64Add(MaxLen - 1, Big), call.scalar)

\* C20: the accumulation visits the logical indices k = 0, 1, ..., N-1 in
\* increasing order, each once: after j steps the accumulator is the sum of
\* the first j products x[offsetX + k*strideX] * y[offsetY + k*strideY],
\* k < j, added in that order.
C20_InOrderAccumulation ==
    (call.pc \in {"loop", "done"}) =>
        /\ call.visited = [i \in 1..call.k |-> i - 1]
        /\ call.acc = SumOfProducts(XSeq(call), YSeq(call), call.k)

C20_Witness ==
    /\ call.op = "Module.ndarray"
    /\ call.pc = "loop"
    /\ call.N = MaxLen
    /\ call.k = MaxLen - 1
    /\ call.visited = [i \in 1..(MaxLen - 1) |-> i - 1]
    /\ call.kernel.strideX = -1 /\ call.kernel.offsetX = MaxLen - 1
    /\ XSeq(call)[1] = 1 /\ XSeq(call)[MaxLen] = Big
    /\ YSeq(call)[1] = 1 /\ YSeq(call)[MaxLen] = Big
    /\ call.acc = MaxLen - 1

\* C21: scalar is added exactly once, after the last product: the
\* accumulator starts at zero, not at scalar, during the loop it holds only
\* products (scalar takes no part in any addition of the loop), and the
\* returned value is the final accumulator plus scalar.
C21_ScalarAddedLast ==
    /\ (call.pc = "loop" /\ call.k = 0) => call.acc = 0
    /\ (call.pc = "loop" /\ call.k > 0) =>
            call.acc = SumOfProducts(XSeq(call), YSeq(call), call.k)
    /\ (call.pc = "done" /\ call.N > 0) =>
            /\ call.acc = SumOfProducts(XSeq(call), YSeq(call), call.N)
            /\ call.res = F64Add(call.acc, call.scalar)

C21_Witness ==
    /\ call.op = "Routine.ndarray"
    /\ call.pc = "done"
    /\ call.N = 2 /\ call.scalar = -1
    /\ XSeq(call) = <<Big, 1>> /\ YSeq(call) = <<Big, 1>>
    /\ call.res = F64Add(F64Add(Big * Big, 1), -1)
    /\ call.res # F64Add(F64Add(-1, Big * Big), 1)

\* C22 as stated: a call to main or ndarray of the routine leaves the
\* routine's memory with the same size and contents as before the call.
C22_MemoryUntouched ==
    (call.op \in RoutineCalls) => mem = call.memBefore

\* C22, amended: a call to main or ndarray of the routine grows the routine's
\* memory when the copies of the indexed elements do not fit (it never
\* shrinks), overwrites its first 8*N bytes with the N indexed elements of x
\* followed by those of y, and leaves every other byte as it was (all of
\* them for N <= 0); what the call leaves behind is not seen by a later
\* invocation: repeating the call on the memory left behind returns the
\* same value.
C22_OnlyCopiesLeftBehind ==
    (call.op \in RoutineCalls) =>
        /\ mem.pages >= call.memBefore.pages
        /\ call.N <= 0 => mem = call.memBefore
        /\ call.N > 0 =>
            /\ ByteLength(mem) >= 2 * BytesPerElement * call.N
            /\ \A k \in 0..(call.N - 1) :
                /\ LoadF32(mem, BytesPerElement * k) = XSeq(call)[k + 1]
                /\ LoadF32(mem, BytesPerElement * (call.N + k)) =
                        YSeq(call)[k + 1]
            /\ \A a \in Addrs :
                a >= 2 * BytesPerElement * call.N =>
                    mem.bytes[a] = call.memBefore.bytes[a]
        /\ Redo(call, mem, call.scalar) = call.res

C22_Witness ==
    /\ call.op = "Routine.ndarray"
    /\ call.N = 1
    /\ call.memBefore.pages = 1
    /\ LoadF32(call.memBefore, 0) = 1
    /\ LoadF32(call.memBefore, BytesPerElement * MaxLen) = 1
    /\ LoadF32(mem, 0) = Big
    /\ LoadF32(mem, BytesPerElement) = Big
    /\ LoadF32(mem, BytesPerElement * MaxLen) = 1
    /\ mem # call.memBefore

\* C23: main and ndarray of a module only read module memory: when either
\* has returned, the memory has the size and every byte it had before the
\* call, so the same call made again on the memory as it is now returns the
\* same value.
C23_ModuleCallsOnlyRead ==
    (call.op \in ModuleCalls) =>
        /\ mem.pages = call.memBefore.pages
        /\ \A a \in Addrs : mem.bytes[a] = call.memBefore.bytes[a]
        /\ Redo(call, mem, call.scalar) = call.res

C23_Witness ==
    /\ call.op = "Module.main"
    /\ call.N = MaxLen
    /\ call.strideX = 1 /\ call.strideY = -1
    /\ XSeq(call)[1] = Big /\ YSeq(call)[1] = Big
    /\ call.res # LoadF32(mem, call.xptr)
    /\ mem = call.memBefore

\* The element most recently written at a byte address of module memory.
LastWritten(m, addr) == m.written[addr \div BytesPerElement]

\* C24: main of a module reads module memory as it is at the time of the
\* call: after any sequence of writes, also a shorter vector written over
\* the start of a longer one at the same pointer, the value returned is
\* scalar plus the products of the elements most recently written at the
\* addresses of the first N strided elements, and of no other element.
C24_ReadsLatestWrites ==
    (call.op = "Module.main" /\ call.N > 0) =>
        call.res = Expected(call.scalar,
            [i \in 1..call.N |->
                LastWritten(call.memBefore, call.xptr +
                    BytesPerElement * MainIndex(call.N, call.strideX, i - 1))],
            [i \in 1..call.N |->
                LastWritten(call.memBefore, call.yptr +
                    BytesPerElement * MainIndex(call.N, call.strideY, i - 1))])

\* Two elements Big at xptr are only there once the vector [Big] has been
\* written over the start of [1, Big].
C24_Witness ==
    /\ call.op = "Module.main"
    /\ call.N = 2 /\ call.scalar = 0
    /\ call.strideX = 1 /\ call.strideY = 1
    /\ LastWritten(call.memBefore, call.xptr) = Big
    /\ LastWritten(call.memBefore, call.xptr + BytesPerElement) = Big
    /\ LastWritten(call.memBefore, call.yptr) = 1
    /\ LastWritten(call.memBefore, call.yptr + BytesPerElement) = 1
    /\ call.res = F64Add(Big, Big)

\* C25: invocations that overlap in time, on disjoint buffers or reading a
\* common buffer that nothing writes, each return the value they return
\* when run alone: after every step the accumulator of a call holds the
\* products of its own elements, and the value it returns is the one the
\* same call returns on a routine nobody else uses.
C25_OverlapReturnsAsAlone ==
    \A p \in Agents :
        LET c == call[p].c
        IN  /\ c.pc \in {"loop", "done"} =>
                    c.acc = SumOfProducts(XSeq(c), YSeq(c), c.k)
            /\ c.pc = "done" =>
                    c.res = RoutineNdarray(Routine("Routine").mem, c.N,
                                c.scalar, c.x, c.strideX, c.offsetX,
                                c.y, c.strideY, c.offsetY).res

C25_Witness ==
    /\ \A p \in Agents :
        /\ call[p].overlapped
        /\ call[p].c.pc = "done"
        /\ call[p].c.N = MaxLen
    /\ call["A"].c.x = call["B"].c.x
    /\ call["A"].c.y # call["B"].c.y
    /\ call["A"].c.res # call["B"].c.res

\* C26: for N <= 0 main and ndarray of the routine read no element of x or
\* of y: nothing is copied to the routine's memory and the call returns
\* scalar without an error, whatever the lengths of the arrays (an empty
\* array included), the strides and the offsets, a negative stride in main
\* included.
C26_NothingReadForEmpty ==
    (call.op \in RoutineCalls /\ call.N <= 0) =>
        /\ mem = call.memBefore
        /\ call.threw = "none"
        /\ call.res = call.scalar
        /\ call.xAfter = call.x /\ call.yAfter = call.y

C26_Witness ==
    /\ call.op = "Routine.main"
    /\ call.N = -1 /\ call.scalar = 1
    /\ call.x = << >> /\ Len(call.y) = 1
    /\ call.strideX = -1 /\ call.offsetX < 0
    /\ call.memBefore # Memory(0)
    /\ call.res = 1

\* The indices main touches in an array walked with a stride: the offset it
\* derives plus k strides, k = 0..N-1.
Touched(N, offset, stride) == { offset + k * stride : k \in 0..(N - 1) }

\* C27: for every N >= 1 and every stride S, every index main touches lies
\* in [0, (N-1)*|S|]: main reads no negative index and nothing outside an
\* array of at least (N-1)*|S| + 1 elements.
C27_MainStaysInside ==
    (call.op = "Routine.main" /\ call.N >= 1) =>
        /\ \A i \in Touched(call.N, call.offsetX, call.strideX) :
            /\ i >= 0 /\ i <= (call.N - 1) * Abs(call.strideX)
            /\ Len(call.x) >= (call.N - 1) * Abs(call.strideX) + 1 =>
                    ReadElement(call.x, i) # NaN
        /\ \A i \in Touched(call.N, call.offsetY, call.strideY) :
            /\ i >= 0 /\ i <= (call.N - 1) * Abs(call.strideY)
            /\ Len(call.y) >= (call.N - 1) * Abs(call.strideY) + 1 =>
                    ReadElement(call.y, i) # NaN

C27_Witness ==
    /\ call.op = "Routine.main"
    /\ call.N = MaxLen
    /\ call.strideX = -1 /\ call.strideY = 1
    /\ call.offsetX = MaxLen - 1 /\ call.offsetY = 0
    /\ Touched(call.N, call.offsetX, call.strideX) = 0..(MaxLen - 1)
    /\ Len(call.x) = MaxLen
    /\ call.x[MaxLen] = Big /\ call.y[1] = Big
    /\ call.res = F64Add(F64Add(Big * Big, MaxLen - 1), call.scalar)

\* Module memory holding the whole of x from address 0 and the whole of y
\* right after it.
Laid(x, y) ==
    Write(Write(Memory(1), 0, x), BytesPerElement * Len(x), y)

\* C28: ndarray of the routine runs the kernel on module memory with the
\* pointers, strides and offsets the conversion of the arrays returns, not
\* with the caller's: for every k < N the element the kernel reads at
\* ptr, offset + k*stride is the caller's x[offsetX + k*strideX] (and the
\* same for y), so the routine returns what ndarray of a module returns on
\* the same data walked with the caller's strides and offsets.
C28_RoutineRefinesModule ==
    (call.op \in RoutineCalls /\ call.pc \in {"loop", "done"}) =>
        /\ \A k \in 0..(call.N - 1) :
            /\ Element(mem, call.kernel.xptr,
                       call.kernel.offsetX + k * call.kernel.strideX) =
                    call.x[call.offsetX + k * call.strideX + 1]
            /\ Element(mem, call.kernel.yptr,
                       call.kernel.offsetY + k * call.kernel.strideY) =
                    call.y[call.offsetY + k * call.strideY + 1]
        /\ call.pc = "done" =>
                call.res = ModuleNdarray(Laid(call.x, call.y), call.N,
                               call.scalar, 0, call.strideX, call.offsetX,
                               BytesPerElement * Len(call.x), call.strideY,
                               call.offsetY)

C28_Witness ==
    /\ call.op = "Routine.ndarray"
    /\ call.pc = "done"
    /\ call.N = MaxLen
    /\ call.strideX = -1 /\ call.offsetX = MaxLen - 1
    /\ call.kernel.strideX = 1 /\ call.kernel.offsetX = 0
    /\ call.x[MaxLen] = Big /\ call.x[1] = 1
    /\ Element(mem, call.kernel.xptr, 0) = Big
    /\ call.strideY = 1 /\ call.y[1] = Big
    /\ call.res = F64Add(F64Add(Big * Big, MaxLen - 1), call.scalar)

\* C29: x and y may be one array: ndarray( N, scalar, x, sX, oX, x, sY, oY )
\* returns scalar plus the sum of the products x[oX + k*sX] * x[oY + k*sY],
\* the array is left as it was, and the copy of one argument in module
\* memory does not overwrite the copy read for the other.
C29_SameArrayTwice ==
    (call.op = "Routine.ndarray" /\ call.x = call.y /\ call.N > 0) =>
        /\ call.res = Expected(call.scalar,
                Strided(call.N, call.x, call.strideX, call.offsetX),
                Strided(call.N, call.x, call.strideY, call.offsetY))
        /\ call.xAfter = call.x /\ call.yAfter = call.x
        /\ \A k \in 0..(call.N - 1) :
            /\ LoadF32(mem, BytesPerElement * k) =
                    call.x[call.offsetX + k * call.strideX + 1]
            /\ LoadF32(mem, BytesPerElement * (call.N + k)) =
                    call.x[call.offsetY + k * call.strideY + 1]

C29_Witness ==
    /\ call.op = "Routine.ndarray"
    /\ call.x = call.y
    /\ call.N = 2 /\ call.scalar = 1
    /\ call.x = <<1, Big>>
    /\ call.strideX = 1 /\ call.offsetX = 0
    /\ call.strideY = -1 /\ call.offsetY = 1
    /\ call.res = F64Add(F64Add(Big, Big), 1)
    /\ call.res # F64Add(F64Add(1, Big * Big), 1)

\* The record of a call with the two vectors exchanged, each with its stride
\* and its offset.
Exchanged(c) ==
    [c EXCEPT !.x = c.y, !.y = c.x, !.xptr = c.yptr, !.yptr = c.xptr,
              !.strideX = c.strideY, !.strideY = c.strideX,
              !.offsetX = c.offsetY, !.offsetY = c.offsetX]

\* C30: exchanging the two vectors, each with its stride and offset, does
\* not change the value returned, for ndarray and for main.
C30_ExchangeVectors ==
    (call.op \in RoutineCalls \cup ModuleCalls) =>
        call.res = Redo(Exchanged(call), call.memBefore, call.scalar)

C30_Witness ==
    /\ call.op = "Routine.ndarray"
    /\ call.N = 2
    /\ call.x = <<1, Big>> /\ call.y = <<Big, 1>>
    /\ call.strideX = 1 /\ call.offsetX = 0
    /\ call.strideY = -1 /\ call.offsetY = 1
    /\ Exchanged(call) # call
    /\ call.res = F64Add(F64Add(1, Big * Big), call.scalar)
    /\ call.res = Redo(Exchanged(call), call.memBefore, call.scalar)

====
